---- MODULE Spec2Model ----
(***************************************************************************)
(* Model of the leus-backend URL shortener: the shortener service          *)
(* (app/services/shortener.py) running in worker processes over the shared *)
(* Redis keyspace wrapped by RedisStore (app/storage/redis_store.py).      *)
(* Every store call is one round trip to Redis and is atomic; the steps of *)
(* different workers interleave between round trips.                       *)
(***************************************************************************)
EXTENDS Integers, Naturals, Sequences, FiniteSets, TLC

\* ---------------------------------------------------------------- bounds
NumUrls == 2
NumCodes == 2
MaxTicks == 2

\* ------------------------------------------------------- program constants
MaxAttempts == 10
URL_TTL == 600
NoExpiry == -1
KeyMissing == -2

UrlNames == <<"u1", "u2", "u3", "u4">>
CodeNames == <<"c1", "c2", "c3", "c4">>

\* the long URLs submitted and the tokens secrets.token_urlsafe(8) can draw
Urls == {UrlNames[i] : i \in 1..NumUrls}
Codes == {CodeNames[i] : i \in 1..NumCodes}

\* the codes callers ask reverse_url about: tokens, and the empty string
LookupCodes == Codes \cup {""}

\* the worker processes serving requests
Procs == {"w1", "w2"}

None == "None"

\* Python's error for an attribute an object does not have
AttributeError == "AttributeError"

\* redis.ConnectionError, raised by the client when the server cannot be reached
ConnectionError == "ConnectionError"
BaseUrl == "http://localhost:3000/"

\* ------------------------------------------------------------------ keys
\* strings passed to the store both as a short code and as a long URL
Shared == {CodeNames[1], UrlNames[1]}

\* f"url:{short_code}"
ForwardKey(short_code) == "url:" \o short_code

\* A variant in which the reverse index uses the prefix of the forward index.
ReverseKey_SamePrefix(long_url) == "url:" \o long_url

\* f"reverse:{long_url}"
ReverseKey(long_url) == "reverse:" \o long_url

Keys ==
    {ForwardKey(c) : c \in Codes \cup Shared} \cup {ReverseKey(u) : u \in Urls \cup Shared}

VARIABLES
    db,     \* the Redis keyspace: key -> Absent or [val, ex]
    now,    \* the Redis server clock, in seconds
    call,   \* per worker: the call it is executing and its position in it
    last,   \* the call that completed most recently, when it ran alone and no
            \* overlapping calls have started since; NoCall otherwise
    raced,  \* has a call ever started while another was in progress
    _store, \* per worker process: the module-level RedisStore instance, or None
    built   \* per worker process: how many times RedisStore() was constructed

vars == <<db, now, call, last, raced, _store, built>>

\* ----------------------------------------------------------- Redis server
\* The slot of a key that is not stored.
Absent == [val |-> None, ex |-> NoExpiry, at |-> 0]

\* A key is readable while it is stored and its deadline has not passed.
\* (The keys outside Keys are never written, hence never stored.)
Live(d, t, k) ==
    /\ k \in DOMAIN d
    /\ d[k] # Absent
    /\ (d[k].ex = NoExpiry \/ t < d[k].ex)

\* SET key value : stores the value and discards any expiry of the key.
\* (at records the server time of the write.)
RedisSet(d, t, k, v) == [d EXCEPT ![k] = [val |-> v, ex |-> NoExpiry, at |-> t]]

\* GET key
RedisGet(d, t, k) == IF Live(d, t, k) THEN d[k].val ELSE None

\* EXISTS key : the number of the named keys that exist
RedisExists(d, t, k) == IF Live(d, t, k) THEN 1 ELSE 0

\* ------------------------------------------------------------- RedisStore
\* A variant of set_url that stores the code where the URL belongs.
set_url_StoresCode(d, t, short_code, long_url) ==
    RedisSet(d, t, ForwardKey(short_code), short_code)

\* A variant of the forward write that never overwrites an entry (SET NX).
set_url_IfAbsent(d, t, short_code, long_url) ==
    IF Live(d, t, ForwardKey(short_code)) THEN d
    ELSE RedisSet(d, t, ForwardKey(short_code), long_url)

set_url(d, t, short_code, long_url) == RedisSet(d, t, ForwardKey(short_code), long_url)

get_url(d, t, short_code) == RedisGet(d, t, ForwardKey(short_code))

\* A variant of set_reverse_mapping that keeps an entry already stored (SET NX).
set_reverse_mapping_IfAbsent(d, t, long_url, short_code) ==
    IF Live(d, t, ReverseKey(long_url)) THEN d
    ELSE RedisSet(d, t, ReverseKey(long_url), short_code)

set_reverse_mapping(d, t, long_url, short_code) ==
    RedisSet(d, t, ReverseKey(long_url), short_code)

get_short_code(d, t, long_url) == RedisGet(d, t, ReverseKey(long_url))

\* A variant of the existence check that looks in the reverse index.
exists_WrongIndex(d, t, short_code) == RedisExists(d, t, ReverseKey(short_code)) > 0

exists(d, t, short_code) == RedisExists(d, t, ForwardKey(short_code)) > 0

\* RedisStore(): the n-th instance constructed in a process
Instances == <<"RedisStore#1", "RedisStore#2">>
RedisStore(n) == Instances[n]

\* A variant of get_store that constructs a fresh instance on a later call too.
get_store_Rebuilds(p) ==
    IF _store[p] = None \/ built[p] < Len(Instances)
    THEN /\ _store' = [_store EXCEPT ![p] = RedisStore(built[p] + 1)]
         /\ built' = [built EXCEPT ![p] = @ + 1]
    ELSE UNCHANGED <<_store, built>>

\* global _store
\* if _store is None: _store = RedisStore()
\* return _store           (the value returned is _store'[p])
get_store(p) ==
    IF _store[p] = None
    THEN /\ _store' = [_store EXCEPT ![p] = RedisStore(built[p] + 1)]
         /\ built' = [built EXCEPT ![p] = @ + 1]
    ELSE UNCHANGED <<_store, built>>

\* the attributes of a RedisStore instance: its client and its six methods
RedisStoreAttrs ==
    {"client", "set_url", "get_url", "set_reverse_mapping", "get_short_code",
     "exists", "ping"}

\* -------------------------------------------------------------- shortener
\* f"http://localhost:3000/{short_url_code}"
ShortUrl(short_url_code) == <<BaseUrl, short_url_code>>
CodeOf(short_url) == short_url[2]

\* Python truthiness of an Optional[str]
Truthy(s) == s # None /\ s # ""

Idle ==
    [pc |-> "idle", op |-> "none", arg |-> None, cand |-> None, hit |-> FALSE,
     code |-> None, tokens |-> 0, checks |-> 0, hits |-> 0, gens |-> 0,
     writes |-> <<>>, gets |-> <<>>, latest |-> FALSE, outcome |-> "none",
     result |-> None, others |-> 0, fault |-> FALSE, store |-> None,
     route |-> "none", req |-> None, status |-> 0, resp |-> None,
     before |-> <<>>]

\* others counts the calls that overlapped this one: 0, 1, or 2 for more.
Solo(c) == c.others = 0
Overlapped(n) == IF n < 2 THEN n + 1 ELSE 2

NoCall ==
    [op |-> "none", arg |-> None, outcome |-> "none", result |-> None, gens |-> 0]

Summary(c) ==
    IF Solo(c)
    THEN [op |-> c.op, arg |-> c.arg, outcome |-> c.outcome, result |-> c.result,
          gens |-> c.gens]
    ELSE NoCall

AllIdle(p) == \A q \in Procs \ {p} : call[q].pc = "idle"

\* The workers' calls once worker p has entered a call: the calls in progress
\* are overlapped by it.
\* before keeps the keyspace as a call that runs alone found it on entry.
Started(p, op, arg, pc) ==
    [q \in Procs |->
        IF q = p
        THEN [Idle EXCEPT !.pc = pc, !.op = op, !.arg = arg,
                          !.others = Cardinality({r \in Procs \ {p} :
                                                    call[r].pc # "idle"}),
                          !.before = IF AllIdle(p) THEN db ELSE <<>>]
        ELSE IF call[q].pc = "idle" THEN call[q]
             ELSE [call[q] EXCEPT !.others = Overlapped(@), !.before = <<>>]]

\* shorten_url(url) is entered
CallShorten(p) ==
    /\ call[p].pc = "idle"
    /\ get_store(p)
    /\ \E url \in Urls :
         call' = [Started(p, "shorten", url, "get_short_code")
                    EXCEPT ![p].store = _store'[p]]
    /\ raced' = (raced \/ ~AllIdle(p))
    /\ last' = IF AllIdle(p) THEN last ELSE NoCall
    /\ UNCHANGED <<db, now>>

\* A variant of the lookup that treats every URL as new.
GetShortCode_NoLookup(p) ==
    /\ call[p].pc = "get_short_code"
    /\ call' = [call EXCEPT ![p] = [@ EXCEPT !.gens = @ + 1, !.pc = "attempt"]]
    /\ UNCHANGED <<db, now, last, raced, _store, built>>

\* A variant of the lookup that rewrites the reverse entry it found.
GetShortCode_Refresh(p) ==
    /\ call[p].pc = "get_short_code"
    /\ LET existing_code == get_short_code(db, now, call[p].arg) IN
         IF Truthy(existing_code)
         THEN /\ db' = set_reverse_mapping(db, now, call[p].arg, existing_code)
              /\ call' = [call EXCEPT ![p] =
                            [@ EXCEPT !.code = existing_code, !.pc = "done",
                                      !.outcome = "return",
                                      !.writes = Append(@, <<ReverseKey(call[p].arg),
                                                             existing_code>>),
                                      !.result = ShortUrl(existing_code)]]
         ELSE /\ db' = db
              /\ call' = [call EXCEPT ![p] = [@ EXCEPT !.gens = @ + 1,
                                                        !.pc = "attempt"]]
    /\ UNCHANGED <<now, last, raced, _store, built>>

\* A variant of the lookup that repairs a one-sided mapping: on a reverse miss
\* it reuses a code whose forward entry already holds the URL.
GetShortCode_Repairs(p) ==
    /\ call[p].pc = "get_short_code"
    /\ LET existing_code == get_short_code(db, now, call[p].arg)
           orphans == {c \in Codes : get_url(db, now, c) = call[p].arg}
           read == Append(call[p].gets, ReverseKey(call[p].arg)) IN
         IF Truthy(existing_code)
         THEN /\ call' = [call EXCEPT ![p] =
                            [@ EXCEPT !.code = existing_code, !.pc = "done",
                                      !.gets = read, !.outcome = "return",
                                      !.result = ShortUrl(existing_code)]]
              /\ UNCHANGED <<db, _store, built>>
         ELSE IF orphans # {}
         THEN /\ \E c \in orphans :
                   /\ db' = set_reverse_mapping(db, now, call[p].arg, c)
                   /\ call' = [call EXCEPT ![p] =
                                 [@ EXCEPT !.code = c, !.pc = "done",
                                           !.gets = read, !.outcome = "return",
                                           !.result = ShortUrl(c)]]
              /\ UNCHANGED <<_store, built>>
         ELSE /\ get_store(p)
              /\ call' = [call EXCEPT ![p] =
                            [@ EXCEPT !.gens = @ + 1, !.gets = read,
                                      !.store = _store'[p], !.pc = "attempt"]]
              /\ UNCHANGED db
    /\ UNCHANGED <<now, last, raced>>

\* existing_code = store.get_short_code(url); if existing_code: ... else: ...
GetShortCode(p) ==
    /\ call[p].pc = "get_short_code"
    /\ LET existing_code == get_short_code(db, now, call[p].arg)
           read == Append(call[p].gets, ReverseKey(call[p].arg)) IN
         IF Truthy(existing_code)
         THEN /\ call' = [call EXCEPT ![p] =
                            [@ EXCEPT !.code = existing_code, !.pc = "done",
                                      !.gets = read, !.outcome = "return",
                                      !.result = ShortUrl(existing_code)]]
              /\ UNCHANGED <<_store, built>>
         ELSE /\ get_store(p)
              /\ call' = [call EXCEPT ![p] =
                            [@ EXCEPT !.gens = @ + 1, !.gets = read,
                                      !.store = _store'[p], !.pc = "attempt"]]
    /\ UNCHANGED <<db, now, last, raced>>

\* A variant of the round that takes the candidate whatever the check says.
Attempt_IgnoresCheck(p) ==
    /\ call[p].pc = "attempt"
    /\ call[p].tokens < MaxAttempts
    /\ \E short_url_code \in Codes :
         LET found == exists(db, now, short_url_code) IN
           call' = [call EXCEPT ![p] =
                      [@ EXCEPT !.cand = short_url_code, !.tokens = @ + 1,
                                !.checks = @ + 1, !.hit = found,
                                !.hits = IF found THEN @ + 1 ELSE @,
                                !.pc = "set_url"]]
    /\ UNCHANGED <<db, now, last, raced, _store, built>>

\* A variant of the round that asks the store twice about each candidate.
Attempt_ChecksTwice(p) ==
    /\ call[p].pc = "attempt"
    /\ call[p].tokens < MaxAttempts
    /\ \E short_url_code \in Codes :
         LET found == exists(db, now, short_url_code) IN
           call' = [call EXCEPT ![p] =
                      [@ EXCEPT !.cand = short_url_code, !.tokens = @ + 1,
                                !.checks = @ + 2, !.hit = found,
                                !.hits = IF found THEN @ + 1 ELSE @,
                                !.pc = IF ~found THEN "set_url" ELSE "attempt"]]
    /\ UNCHANGED <<db, now, last, raced, _store, built>>

\* A variant of the loop without the bound (while True): it goes on drawing
\* candidates; the counters stop one past the bound.
Attempt_WhileTrue(p) ==
    /\ call[p].pc = "attempt"
    /\ \E short_url_code \in Codes :
         LET found == exists(db, now, short_url_code)
             next(n) == IF n <= MaxAttempts THEN n + 1 ELSE n IN
           call' = [call EXCEPT ![p] =
                      [@ EXCEPT !.cand = short_url_code, !.tokens = next(@),
                                !.checks = next(@), !.hit = found,
                                !.hits = IF found THEN next(@) ELSE @,
                                !.pc = IF ~found THEN "set_url" ELSE "attempt"]]
    /\ UNCHANGED <<db, now, last, raced, _store, built>>

\* A variant of the round that writes the candidate before it checks it.
Attempt_WritesFirst(p) ==
    /\ call[p].pc = "attempt"
    /\ call[p].tokens < MaxAttempts
    /\ \E short_url_code \in Codes :
         LET found == exists(db, now, short_url_code) IN
           /\ db' = set_url(db, now, short_url_code, call[p].arg)
           /\ call' = [call EXCEPT ![p] =
                         [@ EXCEPT !.cand = short_url_code, !.tokens = @ + 1,
                                   !.checks = @ + 1, !.hit = found,
                                   !.hits = IF found THEN @ + 1 ELSE @,
                                   !.pc = IF ~found THEN "set_url" ELSE "attempt"]]
    /\ UNCHANGED <<now, last, raced, _store, built>>

\* One round of the loop of generate_shortened_code:
\*   for _ in range(10):
\*       short_url_code = secrets.token_urlsafe(8)
\*       if not store.exists(short_url_code):
\* The token is drawn locally, so only the existence check is a store step.
Attempt(p) ==
    /\ call[p].pc = "attempt"
    /\ call[p].tokens < MaxAttempts
    /\ \E short_url_code \in Codes :
         LET found == exists(db, now, short_url_code) IN
           call' = [call EXCEPT ![p] =
                      [@ EXCEPT !.cand = short_url_code, !.tokens = @ + 1,
                                !.checks = @ + 1, !.hit = found,
                                !.hits = IF found THEN @ + 1 ELSE @,
                                !.pc = IF ~found THEN "set_url" ELSE "attempt"]]
    /\ UNCHANGED <<db, now, last, raced, _store, built>>

\* A variant of the exhausted loop that falls back on the last candidate.
Exhausted_Fallback(p) ==
    /\ call[p].pc = "attempt"
    /\ call[p].tokens >= MaxAttempts
    /\ call' = [call EXCEPT ![p] = [@ EXCEPT !.pc = "set_url"]]
    /\ UNCHANGED <<db, now, last, raced, _store, built>>

\* the range is used up:
\*   raise RuntimeError("Failed to generate unique short code after 10 attempts")
Exhausted(p) ==
    /\ call[p].pc = "attempt"
    /\ call[p].tokens >= MaxAttempts
    /\ call' = [call EXCEPT ![p] = [@ EXCEPT !.pc = "done", !.outcome = "raise",
                                              !.result = "RuntimeError"]]
    /\ UNCHANGED <<db, now, last, raced, _store, built>>

\* A variant in which generate_shortened_code returns the code unwritten.
SetUrl_NoForward(p) ==
    /\ call[p].pc = "set_url"
    /\ call' = [call EXCEPT ![p] =
                  [@ EXCEPT !.code = call[p].cand, !.pc = "set_reverse_mapping"]]
    /\ UNCHANGED <<db, now, last, raced, _store, built>>

\* A variant in which shorten_url returns without the reverse write.
SetUrl_NoReverse(p) ==
    /\ call[p].pc = "set_url"
    /\ db' = set_url(db, now, call[p].cand, call[p].arg)
    /\ call' = [call EXCEPT ![p] =
                  [@ EXCEPT !.code = call[p].cand,
                            !.writes = Append(@, <<ForwardKey(call[p].cand), call[p].arg>>),
                            !.pc = "done", !.outcome = "return",
                            !.result = ShortUrl(call[p].cand)]]
    /\ UNCHANGED <<now, last, raced, _store, built>>

\* store.set_url(short_url_code, long_url); return short_url_code
SetUrl(p) ==
    /\ call[p].pc = "set_url"
    /\ db' = set_url(db, now, call[p].cand, call[p].arg)
    /\ call' = [call EXCEPT ![p] =
                  [@ EXCEPT !.code = call[p].cand,
                            !.writes = Append(@, <<ForwardKey(call[p].cand), call[p].arg>>),
                            !.pc = "set_reverse_mapping"]]
    /\ UNCHANGED <<now, last, raced, _store, built>>

\* store.set_reverse_mapping(url, short_url_code); return f"...{short_url_code}"
SetReverseMapping(p) ==
    /\ call[p].pc = "set_reverse_mapping"
    /\ db' = set_reverse_mapping(db, now, call[p].arg, call[p].code)
    /\ call' = [q \in Procs |->
                  IF q = p
                  THEN [call[p] EXCEPT
                          !.writes = Append(@, <<ReverseKey(call[p].arg), call[p].code>>),
                          !.latest = TRUE, !.pc = "done", !.outcome = "return",
                          !.result = ShortUrl(call[p].code)]
                  ELSE IF call[q].op = "shorten" /\ call[q].arg = call[p].arg
                       THEN [call[q] EXCEPT !.latest = FALSE]
                       ELSE call[q]]
    /\ UNCHANGED <<now, last, raced, _store, built>>

\* reverse_url(short_url_code) is entered
CallReverse(p) ==
    /\ call[p].pc = "idle"
    /\ get_store(p)
    /\ \E short_url_code \in LookupCodes :
         call' = [Started(p, "reverse", short_url_code, "get_url")
                    EXCEPT ![p].store = _store'[p]]
    /\ raced' = (raced \/ ~AllIdle(p))
    /\ last' = IF AllIdle(p) THEN last ELSE NoCall
    /\ UNCHANGED <<db, now>>

\* A variant of reverse_url that treats a missing code as an error.
GetUrl_RaisesOnMiss(p) ==
    /\ call[p].pc = "get_url"
    /\ LET long_url == get_url(db, now, call[p].arg) IN
         call' = [call EXCEPT ![p] =
                    IF long_url = None
                    THEN [@ EXCEPT !.pc = "done", !.outcome = "raise",
                                   !.gets = Append(@, ForwardKey(call[p].arg)),
                                   !.result = "KeyError"]
                    ELSE [@ EXCEPT !.pc = "done", !.outcome = "return",
                                   !.gets = Append(@, ForwardKey(call[p].arg)),
                                   !.result = long_url]]
    /\ UNCHANGED <<db, now, last, raced, _store, built>>

\* A variant of reverse_url that touches the entry it reads (rewrites it).
GetUrl_Touches(p) ==
    /\ call[p].pc = "get_url"
    /\ LET long_url == get_url(db, now, call[p].arg) IN
         /\ db' = IF long_url = None THEN db
                  ELSE set_url(db, now, call[p].arg, long_url)
         /\ call' = [call EXCEPT ![p] =
                       [@ EXCEPT !.pc = "done", !.outcome = "return",
                                 !.gets = Append(@, ForwardKey(call[p].arg)),
                                 !.writes = IF long_url = None THEN @
                                            ELSE Append(@, <<ForwardKey(call[p].arg),
                                                             long_url>>),
                                 !.result = long_url]]
    /\ UNCHANGED <<now, last, raced, _store, built>>

\* return store.get_url(short_url_code)
GetUrl(p) ==
    /\ call[p].pc = "get_url"
    /\ call' = [call EXCEPT ![p] =
                  [@ EXCEPT !.pc = "done", !.outcome = "return",
                            !.gets = Append(@, ForwardKey(call[p].arg)),
                            !.result = get_url(db, now, call[p].arg)]]
    /\ UNCHANGED <<db, now, last, raced, _store, built>>

\* An exception leaves the call: neither RedisStore's data methods nor the
\* shortener have a try block, so it reaches the caller of the call.
Raises(c, exc) ==
    [c EXCEPT !.pc = "done", !.outcome = "raise", !.result = exc, !.fault = TRUE]

\* store.get_short_code(url) raises redis.ConnectionError
GetShortCodeFails(p) ==
    /\ call[p].pc = "get_short_code"
    /\ call' = [call EXCEPT ![p] = Raises(@, ConnectionError)]
    /\ UNCHANGED <<db, now, last, raced, _store, built>>

\* store.exists(short_url_code) raises redis.ConnectionError
ExistsFails(p) ==
    /\ call[p].pc = "attempt"
    /\ call[p].tokens < MaxAttempts
    /\ call' = [call EXCEPT ![p] = Raises(@, ConnectionError)]
    /\ UNCHANGED <<db, now, last, raced, _store, built>>

\* store.set_url(...) raises redis.ConnectionError; the connection may have
\* dropped before the server ran the SET or after it.
SetUrlFails(p) ==
    /\ call[p].pc = "set_url"
    /\ \E applied \in BOOLEAN :
         /\ db' = IF applied THEN set_url(db, now, call[p].cand, call[p].arg) ELSE db
         /\ call' = [call EXCEPT ![p] =
                       Raises([@ EXCEPT !.writes =
                                 IF applied
                                 THEN Append(@, <<ForwardKey(call[p].cand), call[p].arg>>)
                                 ELSE @],
                              ConnectionError)]
    /\ UNCHANGED <<now, last, raced, _store, built>>

\* A variant in which a failed reverse write is swallowed by shorten_url.
SetReverseMappingFails_Swallowed(p) ==
    /\ call[p].pc = "set_reverse_mapping"
    /\ call' = [call EXCEPT ![p] =
                  [@ EXCEPT !.pc = "done", !.outcome = "return", !.fault = TRUE,
                            !.result = ShortUrl(call[p].code)]]
    /\ UNCHANGED <<db, now, last, raced, _store, built>>

\* store.set_reverse_mapping(...) raises redis.ConnectionError
SetReverseMappingFails(p) ==
    /\ call[p].pc = "set_reverse_mapping"
    /\ \E applied \in BOOLEAN :
         /\ db' = IF applied
                  THEN set_reverse_mapping(db, now, call[p].arg, call[p].code)
                  ELSE db
         /\ call' = [call EXCEPT ![p] =
                       Raises([@ EXCEPT !.writes =
                                 IF applied
                                 THEN Append(@, <<ReverseKey(call[p].arg), call[p].code>>)
                                 ELSE @],
                              ConnectionError)]
    /\ UNCHANGED <<now, last, raced, _store, built>>

\* store.get_url(short_url_code) raises redis.ConnectionError
GetUrlFails(p) ==
    /\ call[p].pc = "get_url"
    /\ call' = [call EXCEPT ![p] = Raises(@, ConnectionError)]
    /\ UNCHANGED <<db, now, last, raced, _store, built>>

\* store.ping() is entered
CallPing(p) ==
    /\ call[p].pc = "idle"
    /\ call' = Started(p, "ping", None, "ping")
    /\ raced' = (raced \/ ~AllIdle(p))
    /\ last' = IF AllIdle(p) THEN last ELSE NoCall
    /\ UNCHANGED <<db, now, _store, built>>

\* A variant of ping without the try block.
Ping_Propagates(p) ==
    /\ call[p].pc = "ping"
    /\ \E responds \in BOOLEAN :
         call' = [call EXCEPT ![p] =
                    IF responds
                    THEN [@ EXCEPT !.pc = "done", !.outcome = "return",
                                   !.result = TRUE]
                    ELSE Raises(@, ConnectionError)]
    /\ UNCHANGED <<db, now, last, raced, _store, built>>

\* try: return self.client.ping()
\* except redis.ConnectionError: return False
Ping(p) ==
    /\ call[p].pc = "ping"
    /\ \E responds \in BOOLEAN :
         call' = [call EXCEPT ![p] =
                    [@ EXCEPT !.pc = "done", !.outcome = "return",
                              !.fault = ~responds,
                              !.result = IF responds THEN TRUE ELSE FALSE]]
    /\ UNCHANGED <<db, now, last, raced, _store, built>>

\* store.get_ttl(short_code), as the tests of the store call it: the attribute
\* is looked up on the RedisStore instance, which does not have it.
GetTtl(p) ==
    /\ call[p].pc = "idle"
    /\ AllIdle(p)
    /\ "get_ttl" \notin RedisStoreAttrs
    /\ \E short_code \in Codes :
         call' = [call EXCEPT ![p] =
                    [Idle EXCEPT !.op = "get_ttl", !.arg = short_code,
                                 !.pc = "done", !.outcome = "raise",
                                 !.result = AttributeError]]
    /\ UNCHANGED <<db, now, last, raced, _store, built>>

\* ------------------------------------------------------------- endpoints
\* A URL is a sequence of tokens: "http:", "//", the host, "/" and the path
\* segments. urlparse splits off the scheme and the network location.
Host == "localhost:3000"

\* the short_url values submitted to POST /reverse (test_main.py: 95, 136, 154)
FullUrl(c) == <<"http:", "//", Host, "/", c>>
BareCode(c) == <<c>>
ExtraPath(c) == <<"http:", "//", Host, "/", c, "/", "extra", "/", "path">>
ShortUrlInputs ==
    UNION {{FullUrl(c), BareCode(c), ExtraPath(c)} : c \in Codes \cup {"notfound"}}
        \cup {<<"http:", "//", Host>>, <<"http:", "//", Host, "/">>}

RECURSIVE Join(_)
Join(tokens) == IF tokens = <<>> THEN "" ELSE Head(tokens) \o Join(Tail(tokens))

RECURSIVE FromSlash(_)
FromSlash(tokens) ==
    IF tokens = <<>> \/ Head(tokens) = "/" THEN tokens ELSE FromSlash(Tail(tokens))

\* urlparse(url).path
UrlPath(url) ==
    LET rest == IF url # <<>> /\ Head(url) = "http:" THEN Tail(url) ELSE url IN
      IF rest # <<>> /\ Head(rest) = "//" THEN FromSlash(Tail(rest)) ELSE rest

\* str.lstrip("/")
RECURSIVE lstrip(_)
lstrip(tokens) ==
    IF tokens # <<>> /\ Head(tokens) = "/" THEN lstrip(Tail(tokens)) ELSE tokens

\* short_code = urlparse(req.short_url).path.lstrip("/")
short_code(short_url) == Join(lstrip(UrlPath(short_url)))

\* the request body parsed into a pydantic model with the given fields:
\* a missing field is a validation error, an extra one is ignored
Valid(body, fields) == fields \subseteq DOMAIN body
Parsed(body, fields) == [f \in fields |-> body[f]]

\* obj.name
GetAttr(obj, name) == IF name \in DOMAIN obj THEN obj[name] ELSE AttributeError

\* the HTTP response of a handler
Response(c, status, resp) ==
    [c EXCEPT !.pc = "responded", !.status = status, !.resp = resp]

\* POST /short:  shortened_url = shorten_url(request.url_to_short)
PostShort(p) ==
    /\ call[p].pc = "idle"
    /\ AllIdle(p)
    /\ \/ /\ ~Valid(<<>>, {"long_url"})
          /\ call' = [call EXCEPT ![p] =
                        Response([Idle EXCEPT !.route = "/short", !.req = <<>>],
                                 422, "Unprocessable Entity")]
          /\ UNCHANGED <<_store, built>>
       \/ \E long_url \in Urls :
            LET body == [long_url |-> long_url]
                request == Parsed(body, {"long_url"})
                url_to_short == GetAttr(request, "url_to_short") IN
              IF url_to_short = AttributeError
              THEN /\ call' = [call EXCEPT ![p] =
                                 Response([Idle EXCEPT !.route = "/short",
                                                       !.req = body],
                                          500, "Internal Server Error")]
                   /\ UNCHANGED <<_store, built>>
              ELSE /\ get_store(p)
                   /\ call' = [Started(p, "shorten", url_to_short, "get_short_code")
                                 EXCEPT ![p].store = _store'[p],
                                        ![p].route = "/short", ![p].req = body]
    /\ UNCHANGED <<db, now, last, raced>>

\* POST /reverse:  reversed_url = reverse_url(short_code)
PostReverse(p) ==
    /\ call[p].pc = "idle"
    /\ AllIdle(p)
    /\ get_store(p)
    /\ \E short_url \in ShortUrlInputs :
         call' = [Started(p, "reverse", short_code(short_url), "get_url")
                    EXCEPT ![p].store = _store'[p],
                           ![p].route = "/reverse", ![p].req = short_url]
    /\ UNCHANGED <<db, now, last, raced>>

\* return ShortenResponse(shortened=shortened_url)
\* return ReverseResponse(long_url=reversed_url)
Respond(p) ==
    /\ call[p].pc = "done"
    /\ call[p].route # "none"
    /\ call' = [call EXCEPT ![p] =
                  IF call[p].outcome = "raise"
                  THEN Response(@, 500, "Internal Server Error")
                  ELSE IF call[p].route = "/short"
                  THEN LET kwargs == [shortened |-> call[p].result] IN
                         IF Valid(kwargs, {"short_url"})
                         THEN Response(@, 200, Parsed(kwargs, {"short_url"}))
                         ELSE Response(@, 500, "Internal Server Error")
                  ELSE LET kwargs == [long_url |-> call[p].result] IN
                         IF Valid(kwargs, {"long_url"})
                         THEN Response(@, 200, Parsed(kwargs, {"long_url"}))
                         ELSE Response(@, 500, "Internal Server Error")]
    /\ UNCHANGED <<db, now, last, raced, _store, built>>

\* ------------------------------------------------------ store, directly
\* A RedisStore method called on its own, as the store's tests call it.
Direct(p, op, arg, writes, result) ==
    [call EXCEPT ![p] =
       [Idle EXCEPT !.op = op, !.arg = arg, !.pc = "done", !.outcome = "return",
                    !.writes = writes, !.result = result]]

\* store.set_url(short_code, long_url)
StoreSetUrl(p) ==
    /\ call[p].pc = "idle" /\ AllIdle(p)
    /\ \E code \in Shared : \E url \in Shared :
         /\ db' = set_url(db, now, code, url)
         /\ call' = Direct(p, "set_url", code, <<<<ForwardKey(code), url>>>>, None)
    /\ UNCHANGED <<now, last, raced, _store, built>>

\* store.get_url(short_code)
StoreGetUrl(p) ==
    /\ call[p].pc = "idle" /\ AllIdle(p)
    /\ \E code \in Shared :
         call' = Direct(p, "get_url", code, <<>>, get_url(db, now, code))
    /\ UNCHANGED <<db, now, last, raced, _store, built>>

\* store.set_reverse_mapping(long_url, short_code)
StoreSetReverseMapping(p) ==
    /\ call[p].pc = "idle" /\ AllIdle(p)
    /\ \E url \in Shared : \E code \in Shared :
         /\ db' = set_reverse_mapping(db, now, url, code)
         /\ call' = Direct(p, "set_reverse_mapping", url,
                          <<<<ReverseKey(url), code>>>>, None)
    /\ UNCHANGED <<now, last, raced, _store, built>>

\* store.get_short_code(long_url)
StoreGetShortCode(p) ==
    /\ call[p].pc = "idle" /\ AllIdle(p)
    /\ \E url \in Shared :
         call' = Direct(p, "get_short_code", url, <<>>,
                        get_short_code(db, now, url))
    /\ UNCHANGED <<db, now, last, raced, _store, built>>

\* store.exists(short_code)
StoreExists(p) ==
    /\ call[p].pc = "idle" /\ AllIdle(p)
    /\ \E code \in Shared :
         call' = Direct(p, "exists", code, <<>>, exists(db, now, code))
    /\ UNCHANGED <<db, now, last, raced, _store, built>>

\* the call returns (or raises) to its caller
Return(p) ==
    /\ \/ call[p].pc = "done" /\ call[p].route = "none"
       \/ call[p].pc = "responded"
    /\ last' = Summary(call[p])
    /\ call' = [call EXCEPT ![p] = Idle]
    /\ UNCHANGED <<db, now, raced, _store, built>>

\* time passes on the Redis server, one URL_TTL period at a time
Tick ==
    /\ now < MaxTicks * URL_TTL
    /\ now' = now + URL_TTL
    /\ UNCHANGED <<db, call, last, raced, _store, built>>

Init ==
    /\ db = [k \in Keys |-> Absent]
    /\ now = 0
    /\ call = [p \in Procs |-> Idle]
    /\ last = NoCall
    /\ raced = FALSE
    /\ _store = [p \in Procs |-> None]
    /\ built = [p \in Procs |-> 0]

Step(p) ==
    \/ CallShorten(p)
    \/ GetShortCode(p)
    \/ Attempt(p)
    \/ Exhausted(p)
    \/ SetUrl(p)
    \/ SetReverseMapping(p)
    \/ CallReverse(p)
    \/ GetUrl(p)
    \/ Return(p)

\* Workers serve requests concurrently: their store steps interleave.
Next == \E p \in Procs : Step(p)

Spec == Init /\ [][Next]_vars

\* Sequential use: a call is entered only when no other call is in progress,
\* so every call runs to completion before the next one starts.
ShortenAlone(p) == AllIdle(p) /\ CallShorten(p)
ReverseAlone(p) == AllIdle(p) /\ CallReverse(p)

NextSeq ==
    \E p \in Procs :
        \/ ShortenAlone(p)
        \/ GetShortCode(p)
        \/ Attempt(p)
        \/ Exhausted(p)
        \/ SetUrl(p)
        \/ SetReverseMapping(p)
        \/ ReverseAlone(p)
        \/ GetUrl(p)
        \/ Return(p)

SpecSeq == Init /\ [][NextSeq]_vars

\* Sequential use in which a call that has entered generate_shortened_code
\* keeps running: the interpreter executes the loop, the write and the raise.
SpecLive ==
    /\ SpecSeq
    /\ \A p \in Procs :
         WF_vars(Attempt(p)) /\ WF_vars(Exhausted(p)) /\ WF_vars(SetUrl(p))

\* The store's methods called directly, one at a time, on strings that serve
\* as codes and as URLs alike.
NextStore ==
    \E p \in Procs :
        \/ StoreSetUrl(p)
        \/ StoreGetUrl(p)
        \/ StoreSetReverseMapping(p)
        \/ StoreGetShortCode(p)
        \/ StoreExists(p)
        \/ Return(p)

SpecStore == Init /\ [][NextStore]_vars

\* Sequential use while time passes on the server.
NextTime == NextSeq \/ Tick

SpecTime == Init /\ [][NextTime]_vars

\* Sequential use over a connection that can fail at any store call.
PingAlone(p) == AllIdle(p) /\ CallPing(p)

NextFail ==
    \/ NextSeq
    \/ \E p \in Procs :
         \/ GetShortCodeFails(p)
         \/ ExistsFails(p)
         \/ SetUrlFails(p)
         \/ SetReverseMappingFails(p)
         \/ GetUrlFails(p)
         \/ PingAlone(p)
         \/ Ping(p)

SpecFail == Init /\ [][NextFail]_vars

\* Sequential use of the store while time passes, with the TTL query of the
\* store's tests among the calls.
NextTtl == NextTime \/ \E p \in Procs : GetTtl(p)

SpecTtl == Init /\ [][NextTtl]_vars

\* Sequential use through the service functions and the two endpoints.
NextHttp ==
    \/ NextSeq
    \/ \E p \in Procs :
         \/ PostShort(p)
         \/ PostReverse(p)
         \/ Respond(p)

SpecHttp == Init /\ [][NextHttp]_vars

\* ------------------------------------------------------------ properties
Done(p) == call[p].pc = "done"
Returned(c) == c.outcome = "return"

\* worker p has completed shorten_url(u) right after a completed shorten_url(u)
TwoShortens(p) ==
    /\ Done(p) /\ call[p].op = "shorten" /\ Solo(call[p])
    /\ last.op = "shorten" /\ last.arg = call[p].arg

\* C1 as stated: two shorten_url(u) calls in immediate succession return the
\* same short URL with the same code, and generate_shortened_code is invoked at
\* most once across the two calls.
C1_IdempotenceAsStated ==
    \A p \in Procs :
        TwoShortens(p) =>
            /\ Returned(last) /\ Returned(call[p])
            /\ call[p].result = last.result
            /\ CodeOf(call[p].result) = CodeOf(last.result)
            /\ last.gens + call[p].gens <= 1

\* C1 amended: when the first of two shorten_url(u) calls in immediate
\* succession returns a short URL, the second returns the same short URL with
\* the same code, and generate_shortened_code is invoked at most once across
\* the two calls.
C1_Idempotence ==
    \A p \in Procs :
        (TwoShortens(p) /\ Returned(last)) =>
            /\ Returned(call[p])
            /\ call[p].result = last.result
            /\ CodeOf(call[p].result) = CodeOf(last.result)
            /\ last.gens + call[p].gens <= 1

C1_Witness ==
    \E p \in Procs :
        /\ TwoShortens(p) /\ Returned(last) /\ Returned(call[p])
        /\ last.gens = 1 /\ call[p].gens = 0

\* worker p has completed reverse_url(c) right after a shorten_url(u) that
\* returned the short URL carrying c
ShortenThenReverse(p) ==
    /\ Done(p) /\ call[p].op = "reverse" /\ Solo(call[p])
    /\ last.op = "shorten" /\ Returned(last)
    /\ call[p].arg = CodeOf(last.result)

\* C2 as stated: from every store state, reverse_url(c) called after
\* shorten_url(u) returned code c, with both entries present, returns u.
C2_RoundTripAsStated ==
    \A p \in Procs : ShortenThenReverse(p) => call[p].result = last.arg

\* C2 amended: from every store state reached by calls that ran one at a time,
\* reverse_url(c) called after shorten_url(u) returned code c returns u.
C2_RoundTrip ==
    \A p \in Procs : (ShortenThenReverse(p) /\ ~raced) => call[p].result = last.arg

C2_Witness ==
    \E p \in Procs :
        /\ ShortenThenReverse(p) /\ ~raced
        /\ call[p].result = last.arg
        /\ get_short_code(db, now, last.arg) = call[p].arg

\* worker p makes its existence check in this step
Checks(p) == call'[p].checks > call[p].checks

\* worker p makes its forward write in this step
WritesForward(p) == call[p].pc = "set_url" /\ call'[p].pc # "set_url"

\* C3: a candidate whose existence check returned true is never written to the
\* forward index and never returned; the code that is written and returned is
\* the candidate whose check, in the same attempt, returned false.
C3_NeverIssuedIfExists ==
    [][\A p \in Procs :
        /\ Checks(p) =>
             /\ call'[p].hit = exists(db, now, call'[p].cand)
             /\ call'[p].hit =>
                  /\ call'[p].pc = "attempt"
                  /\ call'[p].code = None
                  /\ call'[p].writes = <<>>
                  /\ db' = db
        /\ WritesForward(p) =>
             /\ ~call[p].hit
             /\ call'[p].writes = <<<<ForwardKey(call[p].cand), call[p].arg>>>>
             /\ call'[p].code = call[p].cand
             /\ db'[ForwardKey(call[p].cand)].val = call[p].arg
        /\ (call'[p].pc = "done" /\ call'[p].op = "shorten" /\ call'[p].gens = 1
              /\ Returned(call'[p])) =>
             /\ ~call'[p].hit
             /\ call'[p].result = ShortUrl(call'[p].cand)
      ]_vars

C3_Witness ==
    \E p \in Procs :
        /\ Done(p) /\ call[p].op = "shorten" /\ Returned(call[p])
        /\ call[p].hits >= 1 /\ ~call[p].hit
        /\ call[p].result = ShortUrl(call[p].cand)

\* generate_shortened_code has just returned to shorten_url in worker p
Generated(p) == call[p].pc = "set_reverse_mapping"

\* C4: when the first N candidates (0 <= N <= 9) exist in the forward index
\* and the next one does not, generate_shortened_code returns that candidate
\* after exactly N+1 existence checks and exactly one forward write, of that
\* candidate to the given URL.
C4_UniquenessUnderCollision ==
    \A p \in Procs :
        Generated(p) =>
            /\ call[p].hits \in 0..(MaxAttempts - 1)
            /\ call[p].code = call[p].cand
            /\ call[p].tokens = call[p].hits + 1
            /\ call[p].checks = call[p].hits + 1
            /\ call[p].writes = <<<<ForwardKey(call[p].cand), call[p].arg>>>>

C4_Witness ==
    \E p \in Procs :
        /\ Generated(p)
        /\ call[p].hits = MaxAttempts - 1
        /\ call[p].checks = MaxAttempts
        /\ get_url(db, now, call[p].code) = call[p].arg

\* C5: when all 10 candidates of one generate_shortened_code call exist in the
\* forward index, the call raises RuntimeError after exactly 10 candidate
\* generations and has performed no write.
C5_Exhaustion ==
    \A p \in Procs :
        /\ call[p].hits >= MaxAttempts =>
             /\ call[p].hits = MaxAttempts
             /\ call[p].tokens = MaxAttempts
             /\ call[p].pc \in {"attempt", "done"}
             /\ call[p].writes = <<>>
             /\ Done(p) => (call[p].outcome = "raise" /\ call[p].result = "RuntimeError")
        /\ call[p].outcome = "raise" =>
             (call[p].hits = MaxAttempts /\ call[p].tokens = MaxAttempts)

C5_Witness ==
    \E p \in Procs :
        /\ Done(p) /\ call[p].outcome = "raise"
        /\ call[p].hits = MaxAttempts /\ call[p].writes = <<>>

\* worker p has completed a successful shorten_url on a URL that was absent
\* from the reverse index
ShortenedNew(p) ==
    Done(p) /\ call[p].op = "shorten" /\ call[p].gens = 1 /\ Returned(call[p])

\* C6: a successful shorten_url(u) on a URL absent from the reverse index
\* performs exactly one forward write (code -> u) and exactly one reverse
\* write (u -> the same code), the forward write first.
C6_TwoWritesInOrder ==
    \A p \in Procs :
        ShortenedNew(p) =>
            call[p].writes = << <<ForwardKey(call[p].code), call[p].arg>>,
                                <<ReverseKey(call[p].arg), call[p].code>> >>

C6_Witness ==
    \E p \in Procs :
        /\ ShortenedNew(p)
        /\ Len(call[p].writes) = 2
        /\ get_url(db, now, call[p].code) = call[p].arg
        /\ get_short_code(db, now, call[p].arg) = call[p].code

\* C7: every key written by set_url and set_reverse_mapping is stored with an
\* expiry, URL_TTL seconds after the write.
C7_WritesExpire ==
    \A k \in Keys : db[k] # Absent => db[k].ex = db[k].at + URL_TTL

\* C8: an entry that is not rewritten is gone once its time-to-live has
\* elapsed: from then on its lookup returns absent and its code passes the
\* existence check again.
C8_ExpiryLifecycle ==
    \A k \in Keys :
        (db[k] # Absent /\ now >= db[k].at + URL_TTL) =>
            (RedisGet(db, now, k) = None /\ RedisExists(db, now, k) = 0)

\* two workers have completed shorten_url(u) calls that overlapped each other
\* and no other call, both missed the reverse index and issued distinct codes
SameUrlRace(p, q) ==
    /\ p # q
    /\ ShortenedNew(p) /\ ShortenedNew(q)
    /\ call[p].others = 1 /\ call[q].others = 1
    /\ call[p].arg = call[q].arg
    /\ call[p].code # call[q].code

\* C9: after two interleaved shorten_url(u) calls that each issued a distinct
\* code, both codes resolve to u and the reverse index holds for u the code of
\* the reverse write that happened last.
C9_SameUrlRace ==
    \A p, q \in Procs :
        SameUrlRace(p, q) =>
            /\ get_url(db, now, call[p].code) = call[p].arg
            /\ get_url(db, now, call[q].code) = call[p].arg
            /\ call[p].latest # call[q].latest
            /\ call[p].latest => get_short_code(db, now, call[p].arg) = call[p].code
            /\ call[q].latest => get_short_code(db, now, call[p].arg) = call[q].code

C9_Witness ==
    \E p, q \in Procs :
        /\ SameUrlRace(p, q)
        /\ call[p].latest
        /\ get_short_code(db, now, call[p].arg) = call[p].code
        /\ get_url(db, now, call[q].code) = call[p].arg

\* worker p looks up, in this step, a URL that is present in the reverse index
FindsExisting(p) ==
    /\ call[p].pc = "get_short_code" /\ call'[p].pc # "get_short_code"
    /\ Truthy(get_short_code(db, now, call[p].arg))

\* C10: shorten_url(u) on a URL present in the reverse index returns the short
\* URL of the existing code, does not call generate_shortened_code and writes
\* nothing: the forward and the reverse index are unchanged.
C10_ExistingUrlNoWrite ==
    [][\A p \in Procs :
        FindsExisting(p) =>
            /\ call'[p].pc = "done" /\ Returned(call'[p])
            /\ call'[p].result = ShortUrl(get_short_code(db, now, call[p].arg))
            /\ call'[p].gens = 0
            /\ call'[p].writes = <<>>
            /\ db' = db
      ]_vars

C10_Witness ==
    \E p \in Procs :
        /\ Done(p) /\ call[p].op = "shorten" /\ Returned(call[p])
        /\ call[p].gens = 0 /\ call[p].writes = <<>>
        /\ call[p].result = ShortUrl(get_short_code(db, now, call[p].arg))

\* worker p makes the forward read of reverse_url in this step
ReadsForward(p) == call[p].pc = "get_url" /\ call'[p].pc # "get_url"

\* C11: reverse_url writes nothing: for a code that is present, absent or
\* empty it makes exactly one forward read, of the code as passed, and leaves
\* the forward and the reverse index unchanged.
C11_ReverseWritesNothing ==
    [][\A p \in Procs :
        ReadsForward(p) =>
            /\ call'[p].pc = "done"
            /\ call'[p].gets = <<ForwardKey(call[p].arg)>>
            /\ call'[p].writes = <<>>
            /\ call'[p].result = get_url(db, now, call[p].arg)
            /\ db' = db
      ]_vars

C11_Witness ==
    /\ \E p \in Procs :
         /\ Done(p) /\ call[p].op = "reverse" /\ call[p].arg = ""
         /\ call[p].gets = <<ForwardKey("")>> /\ call[p].result = None
    /\ \E c \in Codes : get_url(db, now, c) # None
    /\ \E c \in Codes : get_url(db, now, c) = None

\* C12: reverse_url(c) for a code with no live forward entry (never stored, or
\* stored with a deadline that has passed) returns None and raises nothing; a
\* connectivity failure is raised instead, so the two are told apart.
C12_NotFoundIsAValue ==
    \A p \in Procs :
        (Done(p) /\ call[p].op = "reverse") =>
            IF call[p].fault
            THEN call[p].outcome = "raise" /\ call[p].result = ConnectionError
            ELSE /\ call[p].outcome = "return"
                 /\ ~Live(db, now, ForwardKey(call[p].arg)) => call[p].result = None
                 /\ call[p].result # ConnectionError

C12_Witness ==
    /\ \E p \in Procs :
         /\ Done(p) /\ call[p].op = "reverse" /\ ~call[p].fault
         /\ call[p].arg \in Codes /\ call[p].result = None
    /\ \E c \in Codes : Live(db, now, ForwardKey(c))

\* C13: when a store operation invoked by shorten_url or reverse_url raises a
\* connectivity failure, the call raises that failure and returns no value.
C13_FailuresPropagate ==
    \A p \in Procs :
        (Done(p) /\ call[p].op \in {"shorten", "reverse"} /\ call[p].fault) =>
            /\ call[p].outcome = "raise"
            /\ call[p].result = ConnectionError

C13_Witness ==
    \E p \in Procs :
        /\ Done(p) /\ call[p].op = "shorten" /\ call[p].fault
        /\ call[p].outcome = "raise"
        /\ Len(call[p].writes) = 1

\* C14: ping returns True when the server responds and False, without raising,
\* when the connection fails; no other store operation turns a connectivity
\* failure into a returned value.
C14_PingDowngrades ==
    \A p \in Procs :
        Done(p) =>
            /\ call[p].op = "ping" =>
                 /\ call[p].outcome = "return"
                 /\ call[p].result = ~call[p].fault
            /\ (call[p].fault /\ call[p].outcome = "return") => call[p].op = "ping"

C14_Witness ==
    \E p \in Procs :
        /\ Done(p) /\ call[p].op = "ping" /\ call[p].fault
        /\ call[p].outcome = "return" /\ call[p].result = FALSE

\* the answer of the Redis TTL command for key k
TtlRemaining(d, t, k) ==
    IF ~Live(d, t, k) THEN KeyMissing
    ELSE IF d[k].ex = NoExpiry THEN NoExpiry
    ELSE d[k].ex - t

\* C15: the store has a TTL query on forward keys: get_ttl(code) returns the
\* remaining seconds of url:<code>, -1 for a key without expiry and -2 for a
\* key that does not exist.
C15_TtlQuery ==
    \A p \in Procs :
        (Done(p) /\ call[p].op = "get_ttl") =>
            /\ call[p].outcome = "return"
            /\ call[p].result = TtlRemaining(db, now, ForwardKey(call[p].arg))

\* worker p calls get_store in this step: on entering shorten_url or
\* reverse_url, and on entering generate_shortened_code
GetsStore(p) ==
    \/ call[p].pc = "idle" /\ call'[p].pc \in {"get_short_code", "get_url"}
    \/ call[p].pc = "get_short_code" /\ call'[p].pc = "attempt"

\* C16: in each process RedisStore is constructed at most once, by the first
\* get_store call, and every get_store call returns that one instance.
C16_StoreBuiltOnce ==
    [][\A p \in Procs :
        /\ built'[p] <= 1
        /\ (built'[p] = 0) = (_store'[p] = None)
        /\ GetsStore(p) =>
             /\ call'[p].store = _store'[p]
             /\ _store'[p] = RedisStore(1)
             /\ built'[p] = 1
             /\ _store[p] # None => _store'[p] = _store[p] /\ built'[p] = built[p]
        /\ ~GetsStore(p) => _store'[p] = _store[p] /\ built'[p] = built[p]
      ]_vars

C16_Witness ==
    \E p \in Procs :
        /\ call[p].pc = "attempt" /\ call[p].store = RedisStore(1)
        /\ _store[p] = RedisStore(1) /\ built[p] = 1
        /\ last.op = "reverse"

Responded(p) == call[p].pc = "responded"

\* C17: POST /short with a body carrying long_url calls shorten_url once with
\* that long_url and answers 200 with short_url equal to what shorten_url
\* returned.
C17_PostShort ==
    \A p \in Procs :
        (Responded(p) /\ call[p].route = "/short"
            /\ Valid(call[p].req, {"long_url"})) =>
            /\ call[p].op = "shorten"
            /\ call[p].arg = call[p].req.long_url
            /\ call[p].outcome = "return" =>
                 /\ call[p].status = 200
                 /\ call[p].resp = [short_url |-> call[p].result]

\* the tokens before the first "/"
RECURSIVE UpToSlash(_)
UpToSlash(tokens) ==
    IF tokens = <<>> \/ Head(tokens) = "/" THEN <<>>
    ELSE <<Head(tokens)>> \o UpToSlash(Tail(tokens))

\* the code of a submitted short URL: the first segment of its path
FirstSegment(short_url) == Join(UpToSlash(lstrip(UrlPath(short_url))))

\* C18: POST /reverse passes to reverse_url the first path segment of the
\* submitted short URL: <code> for http://host/<code>, for <code> alone and for
\* http://host/<code>/extra/path.
C18_FirstSegmentOnly ==
    \A p \in Procs :
        (call[p].route = "/reverse" /\ call[p].op = "reverse") =>
            /\ call[p].arg = FirstSegment(call[p].req)
            /\ \A c \in Codes :
                 call[p].req \in {FullUrl(c), BareCode(c), ExtraPath(c)} =>
                     call[p].arg = c

\* worker q has written code c for a URL other than u and not yet returned
WroteFor(q, c, u) ==
    /\ call[q].op = "shorten" /\ call[q].code = c /\ call[q].arg # u
    /\ call[q].pc \in {"set_reverse_mapping", "done"}

\* C19: the existence check and the forward write are separate store steps:
\* the check writes nothing, and a forward write of a candidate that passed
\* its check goes through even when another call wrote the same code for a
\* different URL in between; the forward entry then holds the later writer's
\* URL, so the earlier caller's short URL resolves to the later caller's URL.
C19_ReservationRace ==
    [][\A p \in Procs :
        /\ Checks(p) => db' = db
        /\ WritesForward(p) =>
             /\ ~call[p].hit
             /\ get_url(db', now', call[p].cand) = call[p].arg
             /\ \A q \in Procs \ {p} :
                  WroteFor(q, call[p].cand, call[p].arg) =>
                      /\ get_url(db, now, call[q].code) = call[q].arg
                      /\ get_url(db', now', call[q].code) # call[q].arg
      ]_vars

C19_Witness ==
    \E p, q \in Procs :
        /\ p # q
        /\ ShortenedNew(p) /\ ShortenedNew(q)
        /\ call[p].arg # call[q].arg
        /\ call[p].code = call[q].code
        /\ call[p].result = call[q].result
        /\ ~call[p].hit /\ ~call[q].hit
        /\ get_url(db, now, call[p].code) = call[q].arg

\* code c is one-sided for URL u: the forward index maps c to u while the
\* reverse index has no entry for u
OneSided(c, u) == get_url(db, now, c) = u /\ get_short_code(db, now, u) = None

\* C20: a one-sided mapping is not repaired. While c is one-sided for u, a
\* shorten_url(u) call misses the reverse index and goes on to generate a
\* code, the code it writes and returns differs from c, and c keeps
\* resolving to u.
C20_OneSidedNotRepaired ==
    [][\A p \in Procs : \A c \in Codes :
        (call[p].op = "shorten" /\ c # call[p].code /\ OneSided(c, call[p].arg)) =>
            /\ (call[p].pc = "get_short_code" /\ call'[p].pc # "get_short_code"
                  /\ ~call'[p].fault) =>
                    call'[p].pc = "attempt" /\ db' = db
            /\ WritesForward(p) => call[p].cand # c
            /\ (call'[p].pc = "done" /\ Returned(call'[p])) => call'[p].code # c
            /\ get_url(db', now', c) = call[p].arg
      ]_vars

C20_Witness ==
    \E p \in Procs : \E c \in Codes :
        /\ ShortenedNew(p) /\ ~call[p].fault
        /\ last.op = "shorten" /\ last.arg = call[p].arg /\ last.outcome = "raise"
        /\ c # call[p].code
        /\ get_url(db, now, c) = call[p].arg
        /\ get_url(db, now, call[p].code) = call[p].arg
        /\ get_short_code(db, now, call[p].arg) = call[p].code

\* worker p is inside generate_shortened_code
InGenerate(p) == call[p].pc \in {"attempt", "set_url"}

\* generate_shortened_code has raised in worker p
GenerateRaised(p) == Done(p) /\ call[p].gens = 1 /\ call[p].outcome = "raise"

\* C21: generate_shortened_code never draws more than 10 candidates nor makes
\* more than 10 existence checks, and every call that enters it leaves it, by
\* returning a code or by raising.
C21_BoundedRetries ==
    /\ [](\A p \in Procs :
            call[p].tokens <= MaxAttempts /\ call[p].checks <= MaxAttempts)
    /\ \A p \in Procs : InGenerate(p) ~> (Generated(p) \/ GenerateRaised(p))

C21_Witness ==
    \E p \in Procs :
        /\ GenerateRaised(p)
        /\ call[p].tokens = MaxAttempts /\ call[p].checks = MaxAttempts
        /\ call[p].result = "RuntimeError"

\* worker p runs a store method, from call to return, in this step
Runs(p, op) == call[p].pc = "idle" /\ call'[p].pc = "done" /\ call'[p].op = op

\* every key but k is as it was
OnlyTouches(k) == \A key \in Keys \ {k} : db'[key] = db[key]

\* C22: a forward operation on k touches only url:<k> and a reverse operation
\* on k only reverse:<k>; a write to one index changes no read and no
\* existence check of the other index, also for a string used as a code and as
\* a URL.
C22_KeyspacesIndependent ==
    [][\A p \in Procs :
        /\ Runs(p, "set_url") =>
             /\ OnlyTouches(ForwardKey(call'[p].arg))
             /\ \A s \in Shared :
                  get_short_code(db', now', s) = get_short_code(db, now, s)
        /\ Runs(p, "set_reverse_mapping") =>
             /\ OnlyTouches(ReverseKey(call'[p].arg))
             /\ \A s \in Shared :
                  /\ get_url(db', now', s) = get_url(db, now, s)
                  /\ exists(db', now', s) = exists(db, now, s)
        /\ Runs(p, "get_url") =>
             db' = db /\ call'[p].result = RedisGet(db, now, ForwardKey(call'[p].arg))
        /\ Runs(p, "exists") =>
             db' = db /\ call'[p].result = Live(db, now, ForwardKey(call'[p].arg))
        /\ Runs(p, "get_short_code") =>
             db' = db /\ call'[p].result = RedisGet(db, now, ReverseKey(call'[p].arg))
      ]_vars

C22_Witness ==
    \E p \in Procs : \E s \in Shared :
        /\ Done(p) /\ call[p].op = "set_url" /\ call[p].arg = s
        /\ get_url(db, now, s) # None
        /\ get_short_code(db, now, s) # None
        /\ get_url(db, now, s) # get_short_code(db, now, s)

\* worker p overwrites, in this step, a key that is stored
Overwrites(p) ==
    /\ Runs(p, "set_url") \/ Runs(p, "set_reverse_mapping")
    /\ Live(db, now, call'[p].writes[1][1])

\* C23: a store write on a key that is already stored replaces the value and
\* restarts the time-to-live: the lookup returns the new value and the key has
\* the full URL_TTL seconds left.
C23_UpsertRefreshesExpiry ==
    [][\A p \in Procs :
        Overwrites(p) =>
            LET w == call'[p].writes[1] IN
              /\ RedisGet(db', now', w[1]) = w[2]
              /\ TtlRemaining(db', now', w[1]) = URL_TTL
      ]_vars

\* C24: in sequential use without expiry or store failure, every reverse
\* entry u -> c has the forward entry c -> u.
C24_ReverseHasForward ==
    \A u \in Urls :
        get_short_code(db, now, u) # None =>
            get_url(db, now, get_short_code(db, now, u)) = u

C24_Witness ==
    /\ \A u \in Urls :
         /\ get_short_code(db, now, u) \in Codes
         /\ get_url(db, now, get_short_code(db, now, u)) = u
    /\ \E p \in Procs : Done(p) /\ call[p].op = "reverse" /\ call[p].result \in Urls

\* C25: in sequential use without expiry or store failure, distinct URLs never
\* share a code in the reverse index, and the short URL returned for a URL
\* differs from the short URL of every other URL.
C25_CodesInjective ==
    /\ \A u1, u2 \in Urls :
         (u1 # u2 /\ get_short_code(db, now, u1) # None) =>
             get_short_code(db, now, u1) # get_short_code(db, now, u2)
    /\ \A p \in Procs :
         (Done(p) /\ call[p].op = "shorten" /\ Returned(call[p])) =>
             /\ \A u \in Urls \ {call[p].arg} :
                  call[p].result # ShortUrl(get_short_code(db, now, u))
             /\ (last.op = "shorten" /\ Returned(last) /\ last.arg # call[p].arg) =>
                  call[p].result # last.result

C25_Witness ==
    \E p \in Procs :
        /\ ShortenedNew(p) /\ call[p].hits >= 1
        /\ last.op = "shorten" /\ Returned(last) /\ last.arg # call[p].arg
        /\ get_short_code(db, now, last.arg) \in Codes \ {call[p].code}

\* shorten_url has raised the exhaustion failure in worker p
ShortenExhausted(p) ==
    /\ Done(p) /\ call[p].op = "shorten" /\ Solo(call[p])
    /\ call[p].outcome = "raise"

\* C26: when shorten_url(u) on a URL absent from the reverse index finds all
\* 10 candidates taken, it raises the exhaustion failure, has written no
\* reverse entry for u, and the forward and the reverse index are as they
\* were before the call.
C26_ExhaustionLeavesStore ==
    \A p \in Procs :
        ShortenExhausted(p) =>
            /\ call[p].result = "RuntimeError"
            /\ call[p].gens = 1 /\ call[p].hits = MaxAttempts
            /\ call[p].gets = <<ReverseKey(call[p].arg)>>
            /\ get_short_code(db, now, call[p].arg) = None
            /\ db = call[p].before

C26_Witness ==
    \E p \in Procs :
        /\ ShortenExhausted(p)
        /\ call[p].before = db
        /\ call[p].hits = MaxAttempts
        /\ \E c \in Codes : get_url(db, now, c) \in Urls \ {call[p].arg}
        /\ get_short_code(db, now, call[p].arg) = None

====
